---- MODULE Spec2Model ----
(***************************************************************************)
(* The terminal dashboard of aws-overview as a state machine: the Bubble   *)
(* Tea model (internal/ui), its Update handlers, the commands they return  *)
(* and the fetch commands running in the background.                       *)
(***************************************************************************)
EXTENDS Integers, Sequences, FiniteSets, TLC

VARIABLES
    m,         \* the ui.Model value the event loop holds
    inflight,  \* per family, the load commands dispatched and not yet delivered
    timers,    \* refreshTimer commands armed whose refreshTimerMsg is not yet handled
    quitting,  \* tea.Quit has been returned: the event loop has stopped
    now,       \* the wall clock time.Now() reads
    args,      \* the command line: per family flag, "unset", "true" or "false"
    call,      \* a provider call examined on its own: input, progress, return values
    older      \* per family, how many of its running load commands were started
               \* before the command whose message Update applied last

vars == <<m, inflight, timers, quitting, now, args, call, older>>

(* ------------------------------ bounds -------------------------------- *)

\* load commands of one family that may be running at once
MaxInFlight == 2
\* minutes the clock may advance
MaxTime == 1
\* items a provider's listing call may return
MaxItems == 2
\* pages DescribeInstances may be asked for
MaxPages == 2
\* lines the viewport content extends below the window
MaxScroll == 1

(* ----------------------------- constants ------------------------------ *)

\* the resource families in the order NewModel declares their tabs
Families == <<"ALB", "RDS", "EC2", "ECS", "SQS">>

Fam == {Families[i] : i \in 1..Len(Families)}

TabLabel(f) ==
    CASE f = "ALB" -> "Load Balancers"
      [] f = "RDS" -> "RDS Instances"
      [] f = "EC2" -> "EC2 Instances"
      [] f = "ECS" -> "ECS Services"
      [] f = "SQS" -> "SQS Queues"

NoError == "nil"
NoRecords == << >>

\* record lists a provider may return on success (records are sort keys)
ResultSets == {<<1>>, <<2, 1>>}

ConfigError == "failed to load AWS config"
ProviderError == "throttled"

\* regions the AWS configuration may resolve to when none is requested
ResolvedRegions == {"us-east-1", "eu-west-1"}
\* key presses with a binding: quit, next tab, previous tab, refresh
Keys == {"q", "tab", "shift+tab", "r"}
\* key presses without one: a viewport scroll key, a key nothing listens to
OtherKeys == {"j", "x"}

\* terminal sizes delivered by tea.WindowSizeMsg
Sizes == {<<3, 14>>, <<80, 40>>}

headerHeight == 12
footerHeight == 1

(* ----------------------------- helpers -------------------------------- *)

RemoveAt(s, i) == [j \in 1..(Len(s) - 1) |-> IF j < i THEN s[j] ELSE s[j + 1]]

RECURSIVE Insert(_, _)
Insert(x, s) ==
    IF s = << >> THEN <<x>>
    ELSE IF x <= Head(s) THEN <<x>> \o s
    ELSE <<Head(s)>> \o Insert(x, Tail(s))

RECURSIVE SortRecords(_)
\* sort.Slice in FormatInstances: ascending by (Name, InstanceID), here the key
SortRecords(s) == IF s = << >> THEN << >> ELSE Insert(Head(s), SortRecords(Tail(s)))

(* ----------------------------- rendering ------------------------------ *)

\* the one-line aggregate of a result set (Get*Summary): its record count
Summary(recs) == Len(recs)

\* the detail listing of a result set (Format*): FormatInstances and
\* FormatServices list in sorted order, the others in the order given
Format(f, recs) == IF f \in {"EC2", "ECS"} THEN SortRecords(recs) ELSE recs

Content(view, kind) ==
    [ view |-> view, kind |-> kind, err |-> NoError, records |-> NoRecords,
      region |-> "", lastRefresh |-> 0, lines |-> << >> ]

RECURSIVE OverviewLines(_, _)
OverviewLines(mm, i) ==
    IF i > Len(Families) THEN << >>
    ELSE LET f == Families[i] IN
         (IF mm.show[f]
          THEN <<[fam |-> f, err |-> mm.err[f],
                  summary |-> IF mm.err[f] # NoError THEN 0 ELSE Summary(mm.data[f])]>>
          ELSE << >>)
         \o OverviewLines(mm, i + 1)

renderOverview(mm) ==
    IF \/ mm.loading["ALB"] /\ mm.show["ALB"]
       \/ mm.loading["RDS"] /\ mm.show["RDS"]
       \/ mm.loading["EC2"] /\ mm.show["EC2"]
    THEN Content("Overview", "loading")
    ELSE [Content("Overview", "summary") EXCEPT
            !.region = mm.region,
            !.lastRefresh = mm.lastRefresh,
            !.lines = OverviewLines(mm, 1)]

\* renderALB, renderRDS, renderEC2, renderECS, renderSQS
renderFamily(mm, f) ==
    IF mm.loading[f] THEN Content(f, "loading")
    ELSE IF mm.err[f] # NoError THEN [Content(f, "error") EXCEPT !.err = mm.err[f]]
    ELSE [Content(f, "detail") EXCEPT !.records = Format(f, mm.data[f])]

\* the branch the switch of updateViewportContent takes: "Overview", a family
\* whose render function is called, or "none" when no case matches
SelectedView(mm) ==
    LET t == mm.activeTab
        alb == mm.show["ALB"]
        rds == mm.show["RDS"]
        ec2 == mm.show["EC2"]
        ecs == mm.show["ECS"]
        sqs == mm.show["SQS"]
    IN  IF t = 0 THEN "Overview"
        ELSE IF t = 1 /\ alb THEN "ALB"
        ELSE IF (t = 1 /\ ~alb /\ rds) \/ (t = 2 /\ alb /\ rds) THEN "RDS"
        ELSE IF \/ t = 1 /\ ~alb /\ ~rds /\ ec2
                \/ t = 2 /\ ~alb /\ ec2
                \/ t = 2 /\ ~rds /\ ec2
                \/ t = 3 /\ alb /\ rds /\ ec2
             THEN "EC2"
        ELSE IF \/ t = 1 /\ ~alb /\ ~rds /\ ~ec2 /\ ecs
                \/ t = 2 /\ ~alb /\ ~rds /\ ecs
                \/ t = 2 /\ ~alb /\ ~ec2 /\ ecs
                \/ t = 2 /\ ~rds /\ ~ec2 /\ ecs
                \/ t = 3 /\ ~alb /\ ecs
                \/ t = 3 /\ ~rds /\ ecs
                \/ t = 3 /\ ~ec2 /\ ecs
                \/ t = 4 /\ alb /\ rds /\ ec2 /\ ecs
             THEN "ECS"
        ELSE IF /\ t >= 1 /\ t <= 5 /\ sqs
                /\ \/ t = Len(mm.tabs) - 1
                   \/ mm.tabs[t + 1] = "SQS Queues"
             THEN "SQS"
        ELSE "none"

updateViewportContent(mm) ==
    LET v == SelectedView(mm)
        content == IF v = "Overview" THEN renderOverview(mm)
                   ELSE IF v = "none" THEN Content("none", "empty")
                   ELSE renderFamily(mm, v)
        \* FormatInstances sorts the slice it is given, which shares its
        \* backing array with m.ec2Instances
        sorted == IF v = "EC2" /\ content.kind = "detail"
                  THEN SortRecords(mm.data["EC2"]) ELSE mm.data["EC2"]
    IN  [mm EXCEPT !.viewport.content = content, !.data["EC2"] = sorted]

(* --------------------------- construction ----------------------------- *)

\* the values a boolean flag can be given on the command line
FlagValues == {"unset", "true", "false"}

\* main makes every family the default only when it is given no family at all
main_DefaultsOnlyWithoutFlags(a) ==
    LET given == [f \in Fam |-> a[f] = "true"] IN
    IF \A f \in Fam : a[f] = "unset" THEN [f \in Fam |-> TRUE] ELSE given

\* the show flags main passes to NewModel: flag.BoolVar defaults to false, and
\* when no flag is true every family is shown
main(a) ==
    LET given == [f \in Fam |-> a[f] = "true"] IN
    IF \A f \in Fam : ~given[f] THEN [f \in Fam |-> TRUE] ELSE given

RECURSIVE TabsFrom(_, _)
TabsFrom(show, i) ==
    IF i > Len(Families) THEN << >>
    ELSE (IF show[Families[i]] THEN <<TabLabel(Families[i])>> ELSE << >>)
         \o TabsFrom(show, i + 1)

\* every family starts out loading, enabled or not
NewModel_AllLoading(show, region, t) ==
    [ loading     |-> [f \in Fam |-> TRUE],
      data        |-> [f \in Fam |-> NoRecords],
      err         |-> [f \in Fam |-> NoError],
      width       |-> 0,
      height      |-> 0,
      show        |-> show,
      region      |-> region,
      activeTab   |-> 0,
      tabs        |-> <<"Overview">> \o TabsFrom(show, 1),
      lastRefresh |-> t,
      viewport    |-> [Width |-> 80, Height |-> 20, YOffset |-> 0,
                      content |-> Content("none", "empty")] ]

NewModel(show, region, t) ==
    [ loading     |-> [f \in Fam |-> show[f]],
      data        |-> [f \in Fam |-> NoRecords],
      err         |-> [f \in Fam |-> NoError],
      width       |-> 0,
      height      |-> 0,
      show        |-> show,
      region      |-> region,
      activeTab   |-> 0,
      tabs        |-> <<"Overview">> \o TabsFrom(show, 1),
      lastRefresh |-> t,
      viewport    |-> [Width |-> 80, Height |-> 20, YOffset |-> 0,
                      content |-> Content("none", "empty")] ]

\* the families Model.Init returns a load command for
InitLoads(mm) == {f \in Fam : mm.show[f]}

(* ------------------------------ providers ----------------------------- *)

\* the providers that list their items and query each item in a goroutine
FanOutProviders == {"GetLoadBalancers", "GetDBInstances", "GetQueues"}

\* every function that starts one goroutine per listed item and waits for
\* them: the three above, GetServices with a goroutine per cluster, and the
\* goroutine of one load balancer with a goroutine per target group
FanOuts == FanOutProviders \cup {"GetServices", "LoadBalancerWorker"}

\* the sub-queries made per item, in the order their errors are looked at
SubQueries(fn) ==
    CASE fn = "GetLoadBalancers"   -> <<"targetGroups", "targetHealth">>
      [] fn = "GetDBInstances"     -> <<"cpu", "memory", "errors">>
      [] fn = "GetQueues"          -> <<"attributes", "sent", "visible">>
      [] fn = "GetServices"        -> <<"services">>
      [] fn = "LoadBalancerWorker" -> <<"targetHealth">>

SubQuerySet(fn) == {SubQueries(fn)[i] : i \in 1..Len(SubQueries(fn))}

\* which sub-queries of an item fail: none, one of them, all of them
FailingSets(fn) == {{}} \cup {{q} : q \in SubQuerySet(fn)} \cup {SubQuerySet(fn)}

\* the items a listing returns, each with its failing sub-queries
ItemVectors(fn) ==
    UNION {[1..n -> FailingSets(fn)] : n \in 0..MaxItems}

NoErr == [item |-> 0, sub |-> "nil"]

ListError == [item |-> 0, sub |-> "list"]

\* getClusters fails in DescribeClusters, after ListClusters succeeded
DescribeClustersError == [item |-> 0, sub |-> "describe clusters"]

\* the errors the call made before the goroutines start may end with
ListErrors(fn) ==
    IF fn = "GetServices" THEN {ListError, DescribeClustersError} ELSE {ListError}

\* the error the worker of item i ends with: that of the first failing
\* sub-query in the order the code checks them
ItemError(fn, i, failing) ==
    LET q == SubQueries(fn)
        k == CHOOSE j \in 1..Len(q) : q[j] \in failing /\ \A h \in 1..(j - 1) : q[h] \notin failing
    IN  [item |-> i, sub |-> q[k]]

\* no provider call is being examined
NoCall ==
    [ fn |-> "none", phase |-> "idle", input |-> << >>, sent |-> {},
      summariesCh |-> << >>, errorsCh |-> << >>, next |-> 0, acc |-> << >>,
      records |-> << >>, err |-> NoErr ]

Returned(c, records, err) ==
    [c EXCEPT !.phase = "returned", !.records = records, !.err = err]

UIUnchanged == UNCHANGED <<m, inflight, timers, quitting, now, args, older>>

\* the listing call of a fan-out provider: it fails, or returns its items and
\* one goroutine per item is started
ProviderCall ==
    /\ call.phase = "idle"
    /\ \E fn \in FanOuts :
          \/ \E e \in ListErrors(fn) :
                call' = Returned([call EXCEPT !.fn = fn], << >>, e)
          \/ \E items \in ItemVectors(fn) :
                call' = [call EXCEPT !.fn = fn, !.phase = "running", !.input = items]
    /\ UIUnchanged

\* errorsCh is made with room for one error only
WorkerSend_ErrorsChOfOne ==
    /\ call.phase = "running" /\ call.fn \in FanOuts
    /\ \E i \in (1..Len(call.input)) \ call.sent :
          /\ IF call.input[i] = {}
             THEN /\ Len(call.summariesCh) < Len(call.input)
                  /\ call' = [call EXCEPT !.sent = @ \cup {i},
                                          !.summariesCh = Append(@, i)]
             ELSE /\ Len(call.errorsCh) < 1
                  /\ call' = [call EXCEPT !.sent = @ \cup {i},
                                          !.errorsCh = Append(@, ItemError(call.fn, i, call.input[i]))]
    /\ UIUnchanged

\* the goroutine of item i finishes: it sends its summary to summariesCh, or
\* its error to errorsCh; both channels are buffered to the number of items
WorkerSend ==
    /\ call.phase = "running" /\ call.fn \in FanOuts
    /\ \E i \in (1..Len(call.input)) \ call.sent :
          /\ IF call.input[i] = {}
             THEN /\ Len(call.summariesCh) < Len(call.input)
                  /\ call' = [call EXCEPT !.sent = @ \cup {i},
                                          !.summariesCh = Append(@, i)]
             ELSE /\ Len(call.errorsCh) < Len(call.input)
                  /\ call' = [call EXCEPT !.sent = @ \cup {i},
                                          !.errorsCh = Append(@, ItemError(call.fn, i, call.input[i]))]
    /\ UIUnchanged

\* the provider returns the summaries it collected along with the first error
ProviderReturn_KeepsSiblings ==
    /\ call.phase = "running" /\ call.fn \in FanOuts
    /\ call.sent = 1..Len(call.input)
    /\ call' = IF Len(call.errorsCh) > 0
               THEN Returned(call, call.summariesCh, Head(call.errorsCh))
               ELSE Returned(call, call.summariesCh, NoErr)
    /\ UIUnchanged

\* GetServices too returns the first error of errorsCh and nil services
ProviderReturn_ServicesFailOnError ==
    /\ call.phase = "running" /\ call.fn \in FanOuts
    /\ call.sent = 1..Len(call.input)
    /\ call' = IF Len(call.errorsCh) > 0
               THEN Returned(call, << >>, Head(call.errorsCh))
               ELSE Returned(call, call.summariesCh, NoErr)
    /\ UIUnchanged

\* after wg.Wait(): any error in errorsCh is returned with nil records, else
\* the summaries in the order they arrived; GetServices does not look at
\* errorsCh and returns what servicesCh holds
ProviderReturn ==
    /\ call.phase = "running" /\ call.fn \in FanOuts
    /\ call.sent = 1..Len(call.input)
    /\ call' = IF Len(call.errorsCh) > 0 /\ call.fn # "GetServices"
               THEN Returned(call, << >>, Head(call.errorsCh))
               ELSE Returned(call, call.summariesCh, NoErr)
    /\ UIUnchanged

\* the instance states one page of DescribeInstances may list
PageContents == {<< >>, <<"running">>, <<"terminated", "stopped">>}

\* the responses to successive DescribeInstances calls: each fails or lists
\* instances, and carries a NextToken or not; the last one ends the listing
Pages ==
    [instances : PageContents, token : BOOLEAN, fails : BOOLEAN]

PageSequences ==
    {ps \in UNION {[1..n -> Pages] : n \in 1..MaxPages} :
        ps[Len(ps)].fails \/ ~ps[Len(ps)].token}

DescribeError(p) == [item |-> p, sub |-> "describe"]

RECURSIVE Summaries(_, _, _)
\* the summaries GetInstances appends for one page: every instance that is
\* not terminated, in the order listed
Summaries(pg, p, k) ==
    IF k > Len(pg.instances) THEN << >>
    ELSE (IF pg.instances[k] = "terminated" THEN << >>
          ELSE <<[page |-> p, idx |-> k, state |-> pg.instances[k]]>>)
         \o Summaries(pg, p, k + 1)

\* GetInstances is called: instances is empty and nextToken nil
GetInstancesCall ==
    /\ call.phase = "idle"
    /\ \E ps \in PageSequences :
          call' = [call EXCEPT !.fn = "GetInstances", !.phase = "running",
                               !.input = ps, !.next = 1]
    /\ UIUnchanged

\* the loop stops after the first page, whatever its NextToken
DescribeInstancesPage_FirstPageOnly ==
    /\ call.phase = "running" /\ call.fn = "GetInstances"
    /\ LET pg  == call.input[call.next]
           acc == call.acc \o Summaries(pg, call.next, 1)
       IN  call' = IF pg.fails THEN Returned(call, << >>, DescribeError(call.next))
                   ELSE Returned([call EXCEPT !.acc = acc], acc, NoErr)
    /\ UIUnchanged

\* one iteration of the loop: DescribeInstances with the current token
DescribeInstancesPage ==
    /\ call.phase = "running" /\ call.fn = "GetInstances"
    /\ LET pg  == call.input[call.next]
           acc == call.acc \o Summaries(pg, call.next, 1)
       IN  call' = IF pg.fails THEN Returned(call, << >>, DescribeError(call.next))
                   ELSE IF pg.token
                   THEN [call EXCEPT !.acc = acc, !.next = @ + 1]
                   ELSE Returned([call EXCEPT !.acc = acc], acc, NoErr)
    /\ UIUnchanged

\* a Go string as the sequence of its characters
Letters(w) ==
    CASE w = "db.m5."     -> <<"d", "b", ".", "m", "5", ".">>
      [] w = "micro"      -> <<"m", "i", "c", "r", "o">>
      [] w = "small"      -> <<"s", "m", "a", "l", "l">>
      [] w = "medium"     -> <<"m", "e", "d", "i", "u", "m">>
      [] w = "large"      -> <<"l", "a", "r", "g", "e">>
      [] w = "xlarge"     -> <<"x", "l", "a", "r", "g", "e">>
      [] w = "2xlarge"    -> <<"2", "x", "l", "a", "r", "g", "e">>
      [] w = "4xlarge"    -> <<"4", "x", "l", "a", "r", "g", "e">>
      [] w = "8xlarge"    -> <<"8", "x", "l", "a", "r", "g", "e">>
      [] w = "16xlarge"   -> <<"1", "6", "x", "l", "a", "r", "g", "e">>
      [] w = "serverless" -> <<"s", "e", "r", "v", "e", "r", "l", "e", "s", "s">>

\* strings.Contains
Contains(str, substr) ==
    \E i \in 1..(Len(str) - Len(substr) + 1) :
       SubSeq(str, i, i + Len(substr) - 1) = substr

\* the cases of the switch in the order they are written: pattern and GB
MemoryTiers ==
    << [pattern |-> "micro", gb |-> 1],     [pattern |-> "small", gb |-> 2],
       [pattern |-> "medium", gb |-> 4],    [pattern |-> "large", gb |-> 8],
       [pattern |-> "xlarge", gb |-> 16],   [pattern |-> "2xlarge", gb |-> 32],
       [pattern |-> "4xlarge", gb |-> 64],  [pattern |-> "8xlarge", gb |-> 128],
       [pattern |-> "16xlarge", gb |-> 256] >>

\* a tagless switch takes the first case whose condition is true, else default
RECURSIVE FirstMatch(_, _)
FirstMatch(instanceClass, k) ==
    IF k > Len(MemoryTiers) THEN 8
    ELSE IF Contains(instanceClass, Letters(MemoryTiers[k].pattern))
    THEN MemoryTiers[k].gb
    ELSE FirstMatch(instanceClass, k + 1)

getEstimatedMemoryForInstanceClass(instanceClass) == FirstMatch(instanceClass, 1)

\* the size names of the DB instance classes asked about
SizeNames ==
    {MemoryTiers[k].pattern : k \in 1..Len(MemoryTiers)} \cup {"serverless"}

InstanceClass(size) == Letters("db.m5.") \o Letters(size)

\* getMemoryUtilizationData asks for the estimate of an instance's class
EstimateMemory ==
    /\ call.phase = "idle"
    /\ \E size \in SizeNames :
          LET class == InstanceClass(size) IN
          call' = Returned([call EXCEPT !.fn = "getEstimatedMemoryForInstanceClass",
                                        !.input = class],
                           <<getEstimatedMemoryForInstanceClass(class)>>, NoErr)
    /\ UIUnchanged

(* ------------------------------ commands ------------------------------ *)

\* cfg.Region after config.NewConfig(region) and config.LoadAWSConfig: the
\* region asked for, or one taken from the environment when none was
ResolveRegion(region) == IF region # "" THEN {region} ELSE ResolvedRegions

Msg(type) ==
    [ type |-> type, key |-> "", width |-> 0, height |-> 0, fam |-> "",
      records |-> NoRecords, err |-> NoError, region |-> "" ]

DataLoadedMsg(f, records, err, region) ==
    [Msg("dataLoaded") EXCEPT !.fam = f, !.records = records, !.err = err,
                              !.region = region]

\* a command whose AWS configuration fails to load returns no message
LoadOutcomes_SilentConfigFailure(f, region) ==
    {DataLoadedMsg(f, NoRecords, ProviderError, r) : r \in ResolveRegion(region)}
    \cup {DataLoadedMsg(f, recs, NoError, r) :
            recs \in ResultSets, r \in ResolveRegion(region)}

\* the messages the command load<F>Data built with m.region = region may yield
LoadOutcomes(f, region) ==
    {DataLoadedMsg(f, NoRecords, ConfigError, "")}
    \cup {DataLoadedMsg(f, NoRecords, ProviderError, r) : r \in ResolveRegion(region)}
    \cup {DataLoadedMsg(f, recs, NoError, r) :
            recs \in ResultSets, r \in ResolveRegion(region)}

\* the families refreshData returns a load command for
refreshData(mm) == {f \in {"ALB", "RDS", "EC2", "ECS"} : mm.show[f]}

(* ------------------------------- Update ------------------------------- *)

\* what Update returns: the new model and the commands batched with it
Result(mm, loads, timer, quit) ==
    [m |-> mm, loads |-> loads, timer |-> timer, quit |-> quit]

\* the keys the viewport scrolls down by a line for
ScrollKeys == {"j", "down"}

\* viewport.Update for a key message: a scroll key moves YOffset down a line
\* while content is left below the window; it returns no command
viewportUpdate(vp, key) ==
    IF key \in ScrollKeys /\ vp.YOffset < MaxScroll
    THEN [vp EXCEPT !.YOffset = @ + 1] ELSE vp

\* the keys the KeyMsg case does not hand to the viewport first
TabAndQuitKeys == {"tab", "right", "l", "shift+tab", "left", "h", "q", "ctrl+c"}

\* the model after the viewport has seen the key
AfterViewport(mm, key) ==
    IF key \notin TabAndQuitKeys
    THEN [mm EXCEPT !.viewport = viewportUpdate(mm.viewport, key)] ELSE mm

\* the next-tab key stops at the last tab instead of wrapping
UpdateKey_NextStopsAtLast(mm, key) ==
    IF key \in {"q", "ctrl+c"} THEN Result(mm, {}, 0, TRUE)
    ELSE IF key \in {"tab", "right", "l"}
    THEN Result(updateViewportContent(
                  [mm EXCEPT !.activeTab =
                     IF mm.activeTab + 1 < Len(mm.tabs)
                     THEN mm.activeTab + 1 ELSE mm.activeTab]),
                {}, 0, FALSE)
    ELSE IF key \in {"shift+tab", "left", "h"}
    THEN Result(updateViewportContent(
                  [mm EXCEPT !.activeTab =
                     (mm.activeTab - 1 + Len(mm.tabs)) % Len(mm.tabs)]),
                {}, 0, FALSE)
    ELSE IF key = "r"
    THEN Result(AfterViewport(mm, key), refreshData(mm), 0, FALSE)
    ELSE Result(AfterViewport(mm, key), {}, 0, FALSE)

\* the previous-tab key stops at the Overview tab instead of wrapping
UpdateKey_PrevStopsAtFirst(mm, key) ==
    IF key \in {"q", "ctrl+c"} THEN Result(mm, {}, 0, TRUE)
    ELSE IF key \in {"tab", "right", "l"}
    THEN Result(updateViewportContent(
                  [mm EXCEPT !.activeTab = (mm.activeTab + 1) % Len(mm.tabs)]),
                {}, 0, FALSE)
    ELSE IF key \in {"shift+tab", "left", "h"}
    THEN Result(updateViewportContent(
                  [mm EXCEPT !.activeTab =
                     IF mm.activeTab > 0 THEN mm.activeTab - 1 ELSE 0]),
                {}, 0, FALSE)
    ELSE IF key = "r"
    THEN Result(AfterViewport(mm, key), refreshData(mm), 0, FALSE)
    ELSE Result(AfterViewport(mm, key), {}, 0, FALSE)

\* the tab keys move activeTab by one without wrapping it into the tab list
UpdateKey_TabsDoNotWrap(mm, key) ==
    IF key \in {"q", "ctrl+c"} THEN Result(mm, {}, 0, TRUE)
    ELSE IF key \in {"tab", "right", "l"}
    THEN Result(updateViewportContent([mm EXCEPT !.activeTab = mm.activeTab + 1]),
                {}, 0, FALSE)
    ELSE IF key \in {"shift+tab", "left", "h"}
    THEN Result(updateViewportContent([mm EXCEPT !.activeTab = mm.activeTab - 1]),
                {}, 0, FALSE)
    ELSE IF key = "r"
    THEN Result(AfterViewport(mm, key), refreshData(mm), 0, FALSE)
    ELSE Result(AfterViewport(mm, key), {}, 0, FALSE)

\* a key without a binding starts a refresh like the r key does
UpdateKey_AnyKeyRefreshes(mm, key) ==
    IF key \in {"q", "ctrl+c"} THEN Result(mm, {}, 0, TRUE)
    ELSE IF key \in {"tab", "right", "l"}
    THEN Result(updateViewportContent(
                  [mm EXCEPT !.activeTab = (mm.activeTab + 1) % Len(mm.tabs)]),
                {}, 0, FALSE)
    ELSE IF key \in {"shift+tab", "left", "h"}
    THEN Result(updateViewportContent(
                  [mm EXCEPT !.activeTab =
                     (mm.activeTab - 1 + Len(mm.tabs)) % Len(mm.tabs)]),
                {}, 0, FALSE)
    ELSE Result(AfterViewport(mm, key), refreshData(mm), 0, FALSE)

UpdateKey(mm, key) ==
    IF key \in {"q", "ctrl+c"} THEN Result(mm, {}, 0, TRUE)
    ELSE IF key \in {"tab", "right", "l"}
    THEN Result(updateViewportContent(
                  [mm EXCEPT !.activeTab = (mm.activeTab + 1) % Len(mm.tabs)]),
                {}, 0, FALSE)
    ELSE IF key \in {"shift+tab", "left", "h"}
    THEN Result(updateViewportContent(
                  [mm EXCEPT !.activeTab =
                     (mm.activeTab - 1 + Len(mm.tabs)) % Len(mm.tabs)]),
                {}, 0, FALSE)
    ELSE IF key = "r"
    THEN Result(AfterViewport(mm, key), refreshData(mm), 0, FALSE)
    ELSE Result(AfterViewport(mm, key), {}, 0, FALSE)

UpdateWindowSize(mm, w, h) ==
    Result(updateViewportContent(
             [mm EXCEPT !.width = w, !.height = h,
                        !.viewport.Width = w - 4,
                        !.viewport.Height = h - headerHeight - footerHeight - 2]),
           {}, 0, FALSE)

UpdateSpinnerTick(mm) == Result(mm, {}, 0, FALSE)

\* the handler forgets to schedule the next refresh
UpdateRefreshTimer_NoRearm(mm, t) ==
    LET m1 == [mm EXCEPT !.lastRefresh = t]
    IN  Result(m1,
               IF \A f \in Fam : ~m1.loading[f] THEN refreshData(m1) ELSE {},
               0, FALSE)

UpdateRefreshTimer(mm, t) ==
    LET m1 == [mm EXCEPT !.lastRefresh = t]
    IN  Result(m1,
               IF \A f \in Fam : ~m1.loading[f] THEN refreshData(m1) ELSE {},
               1, FALSE)

\* the handler clears every family's loading flag, not only its own
UpdateDataLoaded_ClearsAllLoading(mm, msg) ==
    LET f  == msg.fam
        m1 == [mm EXCEPT !.loading = [g \in Fam |-> FALSE],
                         !.data[f] = msg.records,
                         !.err[f] = msg.err]
        m2 == IF m1.region = "" /\ msg.region # ""
              THEN [m1 EXCEPT !.region = msg.region] ELSE m1
    IN  Result(updateViewportContent(m2), {}, 0, FALSE)

\* the handler stores every region a message reports
UpdateDataLoaded_LastRegionWins(mm, msg) ==
    LET f  == msg.fam
        m1 == [mm EXCEPT !.loading[f] = FALSE,
                         !.data[f] = msg.records,
                         !.err[f] = msg.err]
        m2 == IF msg.region # ""
              THEN [m1 EXCEPT !.region = msg.region] ELSE m1
    IN  Result(updateViewportContent(m2), {}, 0, FALSE)

\* the handler drops the tab of a family whose fetch failed
UpdateDataLoaded_HidesFailedFamily(mm, msg) ==
    LET f  == msg.fam
        m1 == [mm EXCEPT !.loading[f] = FALSE,
                         !.data[f] = msg.records,
                         !.err[f] = msg.err,
                         !.show[f] = (msg.err = NoError)]
        m2 == IF m1.region = "" /\ msg.region # ""
              THEN [m1 EXCEPT !.region = msg.region] ELSE m1
    IN  Result(updateViewportContent(m2), {}, 0, FALSE)

\* the handler starts the failed load again at once
UpdateDataLoaded_RetriesOnError(mm, msg) ==
    LET f  == msg.fam
        m1 == [mm EXCEPT !.loading[f] = FALSE,
                         !.data[f] = msg.records,
                         !.err[f] = msg.err]
        m2 == IF m1.region = "" /\ msg.region # ""
              THEN [m1 EXCEPT !.region = msg.region] ELSE m1
    IN  Result(updateViewportContent(m2),
               IF msg.err # NoError THEN {f} ELSE {}, 0, FALSE)

UpdateDataLoaded(mm, msg) ==
    LET f  == msg.fam
        m1 == [mm EXCEPT !.loading[f] = FALSE,
                         !.data[f] = msg.records,
                         !.err[f] = msg.err]
        m2 == IF m1.region = "" /\ msg.region # ""
              THEN [m1 EXCEPT !.region = msg.region] ELSE m1
    IN  Result(updateViewportContent(m2), {}, 0, FALSE)

Update(mm, msg, t) ==
    CASE msg.type = "key"          -> UpdateKey(mm, msg.key)
      [] msg.type = "windowSize"   -> UpdateWindowSize(mm, msg.width, msg.height)
      [] msg.type = "spinnerTick"  -> UpdateSpinnerTick(mm)
      [] msg.type = "refreshTimer" -> UpdateRefreshTimer(mm, t)
      [] msg.type = "dataLoaded"   -> UpdateDataLoaded(mm, msg)

(* --------------------------- the event loop --------------------------- *)

\* the load commands are built without the model's region
Dispatch_NoRegion(fl, loads, region) ==
    [f \in Fam |-> IF f \in loads THEN Append(fl[f], [region |-> ""]) ELSE fl[f]]

\* the load commands returned by a handler start running with the region the
\* model held when they were built
Dispatch(fl, loads, region) ==
    [f \in Fam |-> IF f \in loads THEN Append(fl[f], [region |-> region]) ELSE fl[f]]

CanDispatch(loads) == \A f \in loads : Len(inflight[f]) < MaxInFlight

\* the event loop hands msg to Update, keeps the model it returns and starts
\* the commands it returns; fl and tm are the commands still running, od
\* counts those of them started before the command msg comes from
Handle(msg, fl, tm, od) ==
    LET r == Update(m, msg, now) IN
    /\ ~quitting
    /\ CanDispatch(r.loads)
    /\ m' = r.m
    /\ inflight' = Dispatch(fl, r.loads, m.region)
    /\ timers' = tm + r.timer
    /\ quitting' = r.quit
    /\ older' = od
    /\ UNCHANGED <<now, args, call>>

KeyMsg(k) == [Msg("key") EXCEPT !.key = k]

WindowSizeMsg(w, h) == [Msg("windowSize") EXCEPT !.width = w, !.height = h]

KeyPress == \E k \in Keys : Handle(KeyMsg(k), inflight, timers, older)

WindowSize == \E sz \in Sizes : Handle(WindowSizeMsg(sz[1], sz[2]), inflight, timers, older)

SpinnerTick == Handle(Msg("spinnerTick"), inflight, timers, older)

\* an armed refreshTimer fires and its refreshTimerMsg is handled
RefreshTick ==
    /\ timers > 0
    /\ Handle(Msg("refreshTimer"), inflight, timers - 1, older)

\* the i-th running load command of family f returns msg, which is handled;
\* the i - 1 commands of f ahead of it were started before it and still run
Complete(f, i, msg) ==
    Handle(msg, [inflight EXCEPT ![f] = RemoveAt(inflight[f], i)], timers,
           [older EXCEPT ![f] = i - 1])

FetchCompleted ==
    \E f \in Fam : \E i \in 1..Len(inflight[f]) :
       \E msg \in LoadOutcomes(f, inflight[f][i].region) : Complete(f, i, msg)

TimePasses ==
    /\ now < MaxTime
    /\ now' = now + 1
    /\ UNCHANGED <<m, inflight, timers, quitting, args, call, older>>

(* --------------------------- specifications --------------------------- *)

\* program start: main builds the model with NewModel and tea.Program runs
\* Model.Init, whose batch starts the refresh timer and the initial loads
Run(a, region) ==
    LET m0 == NewModel(main(a), region, 0) IN
    /\ args = a
    /\ call = NoCall
    /\ m = m0
    /\ inflight = Dispatch([f \in Fam |-> << >>], InitLoads(m0), m0.region)
    /\ timers = 1
    /\ quitting = FALSE
    /\ now = 0
    /\ older = [f \in Fam |-> 0]

\* the program started with -f for every family f of s
Start(s, region) == Run([f \in Fam |-> IF f \in s THEN "true" ELSE "unset"], region)

Next ==
    \/ KeyPress
    \/ WindowSize
    \/ SpinnerTick
    \/ RefreshTick
    \/ FetchCompleted
    \/ TimePasses

\* the command lines explored with every handler enabled: the families
\* flagged and the -region flag
CommandLines ==
    { <<{"ALB"}, "">>, <<{"ALB"}, "us-east-1">>, <<{"EC2", "SQS"}, "us-east-1">> }

Init == \E c \in CommandLines : Start(c[1], c[2])

Spec == Init /\ [][Next]_vars

\* tea.Tick fires every armed timer after a minute and a load command whose
\* provider call returns hands its message to the event loop
InitFair == Start({"ALB"}, "us-east-1")

FairSpec ==
    InitFair /\ [][Next]_vars /\ SF_vars(RefreshTick) /\ WF_vars(FetchCompleted)

\* a running load command of family f returns its message
FetchCompletedOf(f) ==
    \E i \in 1..Len(inflight[f]) :
       \E msg \in LoadOutcomes(f, inflight[f][i].region) : Complete(f, i, msg)

\* the same scheduling with SQS enabled, the family refreshData leaves out;
\* no family's load commands are kept waiting for ever
InitFairSQS == Start({"SQS"}, "us-east-1")

FairSpecSQS ==
    /\ InitFairSQS /\ [][Next]_vars
    /\ SF_vars(RefreshTick)
    /\ \A f \in Fam : WF_vars(FetchCompletedOf(f))

\* every flag combination main can pass to NewModel (it turns "no flag" into
\* "every flag"), explored with the tab keys and resizes only
AllShowSets == {s \in SUBSET Fam : s # {}}

InitTabs == \E s \in AllShowSets : Start(s, "us-east-1")

TabKeyPress == \E k \in {"tab", "shift+tab"} : Handle(KeyMsg(k), inflight, timers, older)

NextTabs ==
    \/ TabKeyPress
    \/ WindowSize

SpecTabs == InitTabs /\ [][NextTabs]_vars

\* every handler, and the keys without a binding as well
InitScroll == Start({"ALB"}, "")

OtherKeyPress == \E k \in OtherKeys : Handle(KeyMsg(k), inflight, timers, older)

NextScroll ==
    \/ Next
    \/ OtherKeyPress

SpecScroll == InitScroll /\ [][NextScroll]_vars

\* three flags given, explored with the load commands returning only, so
\* that the Overview tab stays the active one
ThreeShowSets == {s \in SUBSET Fam : Cardinality(s) = 3}

InitOverview == \E s \in ThreeShowSets : Start(s, "us-east-1")

NextOverview == FetchCompleted

SpecOverview == InitOverview /\ [][NextOverview]_vars

\* every command line over the five family flags, explored with the tab keys
AllArgs == [Fam -> FlagValues]

InitMain == \E a \in AllArgs : Run(a, "")

NextMain == TabKeyPress

SpecMain == InitMain /\ [][NextMain]_vars

\* the provider calls on their own, the dashboard idle
InitProviders == Start({"ALB"}, "us-east-1")

NextProviders ==
    \/ ProviderCall
    \/ WorkerSend
    \/ ProviderReturn
    \/ GetInstancesCall
    \/ DescribeInstancesPage
    \/ EstimateMemory

SpecProviders == InitProviders /\ [][NextProviders]_vars

\* the Go scheduler runs every goroutine that can take a step: a worker whose
\* send has room, the caller once wg.Wait returns
FairSpecProviders ==
    /\ InitProviders /\ [][NextProviders]_vars
    /\ WF_vars(WorkerSend) /\ WF_vars(ProviderReturn)

(* ------------------------- derived observations ----------------------- *)

\* a step starts a load command of family f
Dispatches(f) == Len(inflight'[f]) > Len(inflight[f])

\* the families a step that completes no command starts a load command for
Dispatched == {f \in Fam : Dispatches(f)}

\* the families a step takes a running load command away from
Completing == {f \in Fam : Len(inflight'[f]) < Len(inflight[f])}

NotLoading == {f \in Fam : m.show[f] /\ ~m.loading[f]}

\* the family whose tab is the i-th after Overview
FamilyAt(mm, i) == CHOOSE f \in Fam : TabLabel(f) = mm.tabs[i + 1]

KeyStep(k) == Handle(KeyMsg(k), inflight, timers, older)

\* what a rendered content shows: the spinner line, a family's summary line
\* (the success mark and the aggregate), a family's error line
ShowsLoading(c) == c.kind = "loading"

ShowsSummary(c, f, recs) ==
    \E i \in 1..Len(c.lines) :
       c.lines[i] = [fam |-> f, err |-> NoError, summary |-> Summary(recs)]

ShowsError(c, f, e) ==
    \/ c.kind = "error" /\ c.view = f /\ c.err = e
    \/ \E i \in 1..Len(c.lines) : c.lines[i].fam = f /\ c.lines[i].err = e

\* the families given as true on the command line, the families the model shows
Given == {f \in Fam : args[f] = "true"}

Enabled == {f \in Fam : m.show[f]}

\* the elements of a sequence
Range(q) == {q[i] : i \in 1..Len(q)}

\* a fan-out provider has returned after a listing that succeeded
FanOutReturned ==
    call.phase = "returned" /\ call.fn \in FanOutProviders /\ call.err # ListError

\* a fan-out has started its goroutines and not yet returned
FanOutRunning == call.phase = "running" /\ call.fn \in FanOuts

\* the goroutines that have not sent yet; wg's counter is their number
Unsent == (1..Len(call.input)) \ call.sent

\* the channel the goroutine of item i sends to: its contents and capacity
SendsTo(i) == IF call.input[i] = {} THEN call.summariesCh ELSE call.errorsCh

Capacity == Len(call.input)

\* the items whose sub-queries all succeeded, the items with a failing one
GoodItems == {i \in 1..Len(call.input) : call.input[i] = {}}

BadItems == {i \in 1..Len(call.input) : call.input[i] # {}}

\* the number of DescribeInstances requests a page sequence leads to: up to
\* and including the first page that fails or carries no token
RECURSIVE Requested(_, _)
Requested(ps, p) ==
    IF ps[p].fails \/ ~ps[p].token THEN p ELSE Requested(ps, p + 1)

\* the instances of pages 1..n that are not terminated, in page order
RECURSIVE NotTerminated(_, _)
NotTerminated(ps, n) ==
    IF n = 0 THEN << >>
    ELSE NotTerminated(ps, n - 1) \o
         SelectSeq([k \in 1..Len(ps[n].instances) |->
                      [page |-> n, idx |-> k, state |-> ps[n].instances[k]]],
                   LAMBDA x : x.state # "terminated")

\* the estimate the switch lists for the case whose pattern is the size name
TierEstimate(size) ==
    LET k == CHOOSE j \in 1..Len(MemoryTiers) : MemoryTiers[j].pattern = size
    IN  MemoryTiers[k].gb

\* the model after key has been handled n times in a row
RECURSIVE Repeat(_, _, _)
Repeat(mm, key, n) ==
    IF n = 0 THEN mm ELSE Repeat(UpdateKey(mm, key).m, key, n - 1)

\* the number of tabs: Overview and one per enabled family
TabCount(mm) == 1 + Cardinality({f \in Fam : mm.show[f]})

(* ------------------------------- claims ------------------------------- *)

\* C1: in every reachable state at most one fetch per family is dispatched
\* and not yet completed.
C1_AtMostOneInFlight == \A f \in Fam : Len(inflight[f]) <= 1

\* C2: a fetch-completed message carrying an error, applied for a family that
\* already holds a result of an earlier successful fetch, leaves that stored
\* result unchanged.
C2_FailedFetchKeepsResult ==
    [][\A f \in Completing : \A i \in 1..Len(inflight[f]) :
         \A msg \in LoadOutcomes(f, inflight[f][i].region) :
            (Complete(f, i, msg) /\ msg.err # NoError /\ m.data[f] # NoRecords)
               => m'.data[f] = m.data[f]]_vars

\* C3: for every combination of enabled families and every activeTab in 1..N
\* the viewport shows the detail view of the family whose label is
\* tabs[activeTab], never another family's view or an empty one.
C3_TabRendersItsFamily ==
    m.activeTab >= 1 => m.viewport.content.view = FamilyAt(m, m.activeTab)

\* C4: a family's loading flag is true exactly while a fetch of that family
\* has been dispatched and its completion message has not been applied.
C4_LoadingIffInFlight == \A f \in Fam : m.loading[f] <=> Len(inflight[f]) > 0

\* C5: a RefreshTick dispatches fetches for exactly the enabled families that
\* are not loading, and none for a family whose fetch from an earlier tick is
\* still in flight (a second tick without a completion adds nothing).
C5_TickDispatchesNotLoadingOnce ==
    [][RefreshTick =>
         /\ Dispatched = NotLoading
         /\ \A f \in Dispatched : inflight[f] = << >>]_vars

\* C6: a manual refresh (key r) dispatches a fetch for every enabled family
\* that is not loading and nothing for a family that is loading.
C6_ManualRefreshSkipsLoading == [][KeyStep("r") => Dispatched = NotLoading]_vars

\* C7: a RefreshTick received while some family is loading dispatches no
\* fetch; one received while no family is loading dispatches a fetch for
\* every enabled family.
C7_TickAllOrNothing ==
    [][RefreshTick =>
         IF \E f \in Fam : m.loading[f]
         THEN Dispatched = {}
         ELSE Dispatched = {f \in Fam : m.show[f]}]_vars

\* C9: a manual refresh (key r) sets lastRefresh to the time of the request.
C9_ManualRefreshStampsTime == [][KeyStep("r") => m'.lastRefresh = now]_vars

\* C8: every RefreshTick re-arms the timer exactly once, so until quit exactly
\* one refresh timer is pending in every state, and RefreshTick keeps being
\* handled: whenever the clock has moved on, a later tick stamps lastRefresh.
C8_TimerAlwaysRearmed ==
    /\ [](~quitting => timers = 1)
    /\ [][RefreshTick => timers' = timers]_vars
    /\ []<>(quitting \/ m.lastRefresh = now)

C8_Witness == ~quitting /\ timers = 1 /\ m.lastRefresh > 0

\* C10: applying a fetch-completed message for family F clears F's loading
\* flag; on success F's result becomes the delivered records and F's error
\* becomes nil; on failure F's error becomes the delivered error.
C10_FetchCompletedApplied ==
    [][\A f \in Completing : \A i \in 1..Len(inflight[f]) :
         \A msg \in LoadOutcomes(f, inflight[f][i].region) :
            Complete(f, i, msg) =>
               /\ ~m'.loading[f]
               /\ msg.err = NoError =>
                     (m'.data[f] = msg.records /\ m'.err[f] = NoError)
               /\ msg.err # NoError => m'.err[f] = msg.err]_vars

\* C11: applying a fetch-completed message for family F leaves the loading
\* flag, result and error of every other family as they were and takes no
\* other family's running fetch away.
C11_CompletionTouchesOwnFamilyOnly ==
    [][\A f \in Completing : \A i \in 1..Len(inflight[f]) :
         \A msg \in LoadOutcomes(f, inflight[f][i].region) :
            Complete(f, i, msg) =>
               \A g \in Fam \ {f} :
                  /\ m'.loading[g] = m.loading[g]
                  /\ m'.data[g] = m.data[g]
                  /\ m'.err[g] = m.err[g]
                  /\ inflight'[g] = inflight[g]]_vars

\* SQS has failed while EC2 is still loading with its fetch running
C11_Witness ==
    /\ m.err["SQS"] = ProviderError /\ ~m.loading["SQS"]
    /\ m.loading["EC2"] /\ Len(inflight["EC2"]) = 1
    /\ m.data["EC2"] = NoRecords /\ m.err["EC2"] = NoError

\* C12: once the model's region is non-empty no fetch-completed message of
\* any family changes it, whatever region the message reports.
C12_RegionFirstWriterWins ==
    [][\A f \in Completing : \A i \in 1..Len(inflight[f]) :
         \A msg \in LoadOutcomes(f, inflight[f][i].region) :
            (Complete(f, i, msg) /\ m.region # "") => m'.region = m.region]_vars

\* the region was resolved from a message while a second fetch issued without
\* a region, which may resolve to another one, has been applied or is running
C12_Witness ==
    /\ m.region = "eu-west-1"
    /\ \E f \in Fam : ~m.loading[f] /\ Len(inflight[f]) = 1 /\ inflight[f][1].region = ""

\* C13: every fetch a step dispatches is issued with the region the model
\* holds at that moment: the resolved region once there is one, the empty
\* region only while the model's region is still empty.
C13_DispatchUsesModelRegion ==
    [][\A f \in Dispatched :
         inflight'[f][Len(inflight'[f])].region = m.region]_vars

\* a refresh dispatched after the region was resolved from a message
C13_Witness ==
    \E f \in Fam : \E i \in 1..Len(inflight[f]) :
       inflight[f][i].region = "eu-west-1" /\ m.region = "eu-west-1"

\* C14: with T = 1 + number of enabled families tabs, the next-tab key
\* handled T times returns activeTab to where it started, and from the last
\* tab T-1 it wraps to 0.
C14_NextTabCycles ==
    /\ Len(m.tabs) = TabCount(m)
    /\ Repeat(m, "tab", TabCount(m)).activeTab = m.activeTab
    /\ m.activeTab = TabCount(m) - 1 => UpdateKey(m, "tab").m.activeTab = 0

\* the last of six tabs is active
C14_Witness == TabCount(m) = 6 /\ m.activeTab = 5 /\ m.viewport.content.view = "SQS"

\* C15: the previous-tab key undoes the next-tab key and the next-tab key
\* undoes the previous-tab key, for every tab count and active tab, the wrap
\* between 0 and T-1 included.
C15_PrevTabInvertsNextTab ==
    /\ UpdateKey(UpdateKey(m, "tab").m, "shift+tab").m.activeTab = m.activeTab
    /\ UpdateKey(UpdateKey(m, "shift+tab").m, "tab").m.activeTab = m.activeTab
    /\ m.activeTab = 0 => UpdateKey(m, "shift+tab").m.activeTab = TabCount(m) - 1

\* back on the Overview tab of four after the tab keys have been used
C15_Witness == TabCount(m) = 4 /\ m.activeTab = 0 /\ m.viewport.content.view = "Overview"

\* C16: after a resize to any width and height >= 0, also one smaller than
\* the reserved chrome, the viewport's width and height are both >= 0.
C16_ViewportNeverNegative == m.viewport.Width >= 0 /\ m.viewport.Height >= 0

\* C17: with three families enabled, one loaded successfully, one failed and
\* one still loading, the Overview content shows the first one's summary, the
\* second one's error text and a loading indicator, and there are four tabs,
\* whichever families play the three roles.
C17_OverviewMixedOutcomes ==
    \A a \in Fam : \A b \in Fam \ {a} : \A c \in Fam \ {a, b} :
       ( /\ TabCount(m) = 4 /\ m.show[a] /\ m.show[b] /\ m.show[c]
         /\ m.activeTab = 0
         /\ ~m.loading[a] /\ m.err[a] = NoError
         /\ ~m.loading[b] /\ m.err[b] # NoError
         /\ m.loading[c] )
       => /\ Len(m.tabs) = 4
          /\ ShowsSummary(m.viewport.content, a, m.data[a])
          /\ ShowsError(m.viewport.content, b, m.err[b])
          /\ ShowsLoading(m.viewport.content)

\* C18: whenever an enabled family is loading and has no result yet, the
\* Overview content shows a loading indicator and no success line for that
\* family.
C18_OverviewShowsLoading ==
    m.viewport.content.view = "Overview" =>
       \A f \in Fam :
          (m.show[f] /\ m.loading[f] /\ m.data[f] = NoRecords)
             => /\ ShowsLoading(m.viewport.content)
                /\ ~ShowsSummary(m.viewport.content, f, m.data[f])

\* C19: when a family that holds the records of an earlier successful fetch
\* receives a failed fetch, its detail tab renders those records together
\* with the error, not the error alone.
C19_DetailKeepsStaleRecords ==
    [][\A f \in Completing : \A i \in 1..Len(inflight[f]) :
         \A msg \in LoadOutcomes(f, inflight[f][i].region) :
            ( /\ Complete(f, i, msg)
              /\ msg.err # NoError
              /\ m.data[f] # NoRecords /\ m.err[f] = NoError
              /\ m'.viewport.content.view = f )
            => /\ m'.viewport.content.records = Format(f, m.data[f])
               /\ ShowsError(m'.viewport.content, f, msg.err)]_vars

\* C20: at startup (NewModel followed by Init) every family's loading flag
\* equals its enabled flag, no family has a result or an error, activeTab is
\* 0, and one fetch is dispatched for each enabled family and none for a
\* disabled one; the tab keys and resizes that follow start no fetch.
C20_Startup ==
    /\ \A f \in Fam :
          /\ m.loading[f] = m.show[f]
          /\ m.data[f] = NoRecords /\ m.err[f] = NoError
          /\ Len(inflight[f]) = (IF m.show[f] THEN 1 ELSE 0)
    /\ m.activeTab = 0
    /\ [][inflight' = inflight]_vars

\* started with -ec2 only: EC2 is loading with one fetch, ALB is idle
C20_Witness ==
    /\ m.show["EC2"] /\ ~m.show["ALB"] /\ TabCount(m) = 2
    /\ m.loading["EC2"] /\ Len(inflight["EC2"]) = 1
    /\ ~m.loading["ALB"] /\ Len(inflight["ALB"]) = 0
    /\ m.activeTab = 0 /\ m.viewport.content.kind = "empty"

C22_NegativeFlagsShowOnlyALB ==
    ( /\ args["ALB"] = "unset" /\ args["SQS"] = "unset"
      /\ args["RDS"] = "false" /\ args["EC2"] = "false" /\ args["ECS"] = "false" )
    => Enabled = {"ALB"}

\* C23: no event changes which families are enabled or the tab list: in every
\* reachable state they are what main and NewModel made of the command line.
C23_EnabledAndTabsFixed ==
    /\ m.show = main(args)
    /\ m.tabs = <<"Overview">> \o TabsFrom(main(args), 1)

\* a load has failed, a tick has been handled and a family tab is active
C23_Witness ==
    /\ \E f \in Fam : m.show[f] /\ m.err[f] # NoError
    /\ m.lastRefresh > 0 /\ m.activeTab = 1 /\ m.viewport.Width = 76

\* C24: rendering does not modify the stored results: a tab switch or a
\* resize, which only recompute the viewport content, leave every family's
\* record sequence as it was, element for element and in the same order.
C24_RenderKeepsResults ==
    [][(KeyStep("tab") \/ KeyStep("shift+tab") \/ WindowSize)
          => m'.data = m.data]_vars

\* C25: after a fetch result, a tab switch, a resize, and a RefreshTick that
\* changes the last-refresh time the Overview is showing, the viewport
\* content is the content computed from the new state and active tab.
C25_ContentNeverStale ==
    [][( \/ FetchCompleted
         \/ KeyStep("tab") \/ KeyStep("shift+tab")
         \/ WindowSize
         \/ ( /\ RefreshTick
              /\ m.viewport.content.kind = "summary"
              /\ m'.lastRefresh # m.lastRefresh ) )
          => m'.viewport.content = updateViewportContent(m').viewport.content]_vars

\* C26: applying a fetch-completed message that carries an error starts no
\* fetch of any family, arms no timer and does not quit.
C26_NoRetryOnError ==
    [][\A f \in {g \in Fam : inflight[g] # << >> /\ ~m'.loading[g]} :
         \A i \in 1..Len(inflight[f]) :
            \A msg \in LoadOutcomes(f, inflight[f][i].region) :
               (Complete(f, i, msg) /\ msg.err # NoError)
                  => /\ inflight' = [inflight EXCEPT ![f] = RemoveAt(inflight[f], i)]
                     /\ timers' = timers
                     /\ ~quitting']_vars

\* a load has failed and nothing is running for its family
C26_Witness ==
    \E f \in Fam : m.show[f] /\ m.err[f] = ConfigError /\ inflight[f] = << >> /\ ~quitting

\* C27: a running fetch command ends by delivering one fetch-completed
\* message of its own family, and it can do so in each of its three outcomes
\* (the AWS configuration fails to load, the provider call fails, the provider
\* call succeeds); handling that message is the step that ends the command.
C27_OneMessagePerFetch ==
    /\ [](\A f \in Fam : \A i \in 1..Len(inflight[f]) :
            LET out == LoadOutcomes(f, inflight[f][i].region) IN
            /\ \A msg \in out : msg.type = "dataLoaded" /\ msg.fam = f
            /\ \E msg \in out : msg.err = ConfigError /\ msg.records = NoRecords
            /\ \E msg \in out : msg.err = ProviderError /\ msg.records = NoRecords
            /\ \E msg \in out : msg.err = NoError)
    /\ [][\A f \in Completing :
            /\ Completing = {f}
            /\ Len(inflight'[f]) = Len(inflight[f]) - 1
            /\ \E i \in 1..Len(inflight[f]) :
                  \E msg \in LoadOutcomes(f, inflight[f][i].region) :
                     Complete(f, i, msg)]_vars

\* one load has ended with a configuration error while another is running
C27_Witness ==
    \E f \in Fam : \E g \in Fam \ {f} :
       m.err[f] = ConfigError /\ inflight[f] = << >> /\ Len(inflight[g]) = 1

\* C28: while a fetch of family F has not completed, F's loading flag stays
\* true and no RefreshTick or manual refresh dispatches another fetch of F.
C28_LoadingBlocksDispatch ==
    [][\A f \in Fam \ Completing :
         m.loading[f] => (m'.loading[f] /\ ~Dispatches(f))]_vars

\* C29: when a per-item sub-query fails during a provider's fan-out, the
\* records of the sibling items that were fetched successfully are still
\* returned to the caller.
C29_SiblingsReturned ==
    FanOutReturned => GoodItems \subseteq Range(call.records)

\* C29 as amended: when a per-item sub-query fails, the provider returns no
\* records at all, with the error of one failing item; only when no sub-query
\* fails does it return the records, one per item, with no error.
C29_AllOrNothing ==
    FanOutReturned =>
       IF BadItems # {}
       THEN /\ call.records = << >>
            /\ \E i \in BadItems : call.err = ItemError(call.fn, i, call.input[i])
       ELSE /\ call.err = NoErr
            /\ Range(call.records) = GoodItems
            /\ Len(call.records) = Len(call.input)

\* GetQueues returned after the metrics of the second of two queues failed
C29_Witness ==
    /\ FanOutReturned /\ call.fn = "GetQueues"
    /\ Len(call.input) = 2 /\ call.input[1] = {} /\ call.input[2] = {"sent"}
    /\ call.records = << >> /\ call.err = [item |-> 2, sub |-> "sent"]

\* C30: GetInstances requests page after page until one carries no token and
\* returns the instances of all those pages that are not terminated, in page
\* order; if a page request fails it returns an error and no instances.
C30_GetInstancesPagination ==
    (call.phase = "returned" /\ call.fn = "GetInstances") =>
       LET n == Requested(call.input, 1) IN
       IF \E p \in 1..n : call.input[p].fails
       THEN call.records = << >> /\ call.err # NoErr
       ELSE call.records = NotTerminated(call.input, n) /\ call.err = NoErr

\* two pages were read; the terminated instance of the second is left out
C30_Witness ==
    /\ call.phase = "returned" /\ call.fn = "GetInstances"
    /\ call.next = 2
    /\ call.records = << [page |-> 1, idx |-> 1, state |-> "running"],
                        [page |-> 2, idx |-> 2, state |-> "stopped"] >>
    /\ call.err = NoErr

\* C31: a fetch-completed message applied for a family never comes from a
\* fetch dispatched before the one whose outcome the model already stores, so
\* once all fetches of a family have completed the stored result and error are
\* those of the most recently dispatched one.
C31_LatestFetchWins ==
    [][\A f \in Completing : \A i \in 1..Len(inflight[f]) :
         \A msg \in LoadOutcomes(f, inflight[f][i].region) :
            Complete(f, i, msg) => i > older[f]]_vars

\* C32: lastRefresh changes only in a step that dispatches a refresh: a
\* RefreshTick that is skipped because some family is still loading leaves
\* lastRefresh as it was.
C32_SkippedTickKeepsLastRefresh ==
    [][/\ m'.lastRefresh # m.lastRefresh => Dispatched # {}
       /\ (RefreshTick /\ \E f \in Fam : m.loading[f])
             => m'.lastRefresh = m.lastRefresh]_vars

\* C33: when every running fetch eventually delivers its message and the
\* timer keeps firing, then unless the program quits every enabled family's
\* loading flag eventually becomes false and a RefreshTick dispatches a new
\* fetch of every enabled family again and again.
C33_EveryFamilyRefreshedForever ==
    \A f \in Fam :
       m.show[f] =>
          \/ <>quitting
          \/ /\ <>(~m.loading[f])
             /\ []<><<RefreshTick /\ Dispatches(f)>>_vars

\* C34: in every reachable state 0 <= activeTab < len(tabs), and len(tabs) is
\* one more than the number of enabled families, whatever tab keys and other
\* events were handled.
C34_ActiveTabInRange ==
    /\ 0 <= m.activeTab
    /\ m.activeTab < Len(m.tabs)
    /\ Len(m.tabs) = 1 + Cardinality(Enabled)

\* the last of three tabs is active in a resized window
C34_Witness ==
    /\ Cardinality(Enabled) = 2 /\ m.activeTab = 2
    /\ m.viewport.Width = 76

\* C35: a key that is bound to none of quit, next tab, previous tab and
\* refresh is handed to the viewport, whose scroll handling is the only thing
\* that changes: activeTab, every family's loading flag, result and error, the
\* region and lastRefresh stay as they were, no fetch is dispatched, no timer
\* is armed and the program does not quit.
C35_UnboundKeyOnlyScrolls ==
    [][\A k \in OtherKeys :
         KeyStep(k) =>
            /\ m' = [m EXCEPT !.viewport = viewportUpdate(m.viewport, k)]
            /\ m'.viewport.content = m.viewport.content
            /\ m'.activeTab = m.activeTab /\ m'.loading = m.loading
            /\ m'.data = m.data /\ m'.err = m.err
            /\ m'.region = m.region /\ m'.lastRefresh = m.lastRefresh
            /\ inflight' = inflight /\ timers' = timers /\ ~quitting']_vars

\* the viewport has been scrolled down on a family tab whose load failed
C35_Witness ==
    /\ m.viewport.YOffset = 1 /\ m.activeTab = 1
    /\ m.viewport.content.kind = "error" /\ ~quitting

\* C36: while a fan-out of GetLoadBalancers, GetDBInstances, GetQueues or
\* GetServices (or of a load balancer's target groups) is running, every
\* goroutine has sent at most one value, the channel a goroutine that has not
\* sent yet will send to has room, so no send blocks, and the call returns
\* with the wait group at zero, for every mix of failing sub-calls and every
\* order of the goroutines.
C36_FanOutTerminates ==
    /\ [](FanOutRunning =>
            /\ Len(call.summariesCh) + Len(call.errorsCh) = Cardinality(call.sent)
            /\ Len(call.summariesCh) <= Capacity /\ Len(call.errorsCh) <= Capacity
            /\ \A i \in Unsent : Len(SendsTo(i)) < Capacity
            /\ Unsent # {} => ENABLED WorkerSend
            /\ Unsent = {} => ENABLED ProviderReturn)
    /\ FanOutRunning ~> (call.phase = "returned" /\ Unsent = {})

\* GetLoadBalancers returned after both goroutines sent an error: errorsCh
\* was filled to its capacity
C36_Witness ==
    /\ call.phase = "returned" /\ call.fn = "GetLoadBalancers"
    /\ Len(call.input) = 2 /\ Len(call.errorsCh) = 2 /\ call.sent = {1, 2}

\* C37: GetServices returns an error only when listing or describing the
\* clusters fails, and then no services; when the services of some clusters
\* cannot be fetched it returns the services of exactly the other clusters,
\* each once, with a nil error.
C37_GetServicesSwallowsClusterErrors ==
    (call.phase = "returned" /\ call.fn = "GetServices") =>
       IF call.err # NoErr
       THEN /\ call.err \in {ListError, DescribeClustersError}
            /\ call.records = << >> /\ call.input = << >>
       ELSE /\ Range(call.records) = GoodItems
            /\ Len(call.records) = Cardinality(GoodItems)

\* the services of the first of two clusters could not be fetched: GetServices
\* returned those of the second one and no error
C37_Witness ==
    /\ call.phase = "returned" /\ call.fn = "GetServices"
    /\ Len(call.input) = 2 /\ call.input[1] = {"services"} /\ call.input[2] = {}
    /\ call.records = <<2>> /\ call.err = NoErr
    /\ Len(call.errorsCh) = 1

\* C38: for an instance class of each size tier the switch lists,
\* getEstimatedMemoryForInstanceClass returns that tier's estimate (16 for
\* xlarge, 32 for 2xlarge, 64 for 4xlarge, 128 for 8xlarge, 256 for 16xlarge)
\* and not the value of an earlier case whose pattern the class name contains.
C38_EstimateOfMatchingTier ==
    (call.phase = "returned" /\ call.fn = "getEstimatedMemoryForInstanceClass") =>
       \A size \in SizeNames \ {"serverless"} :
          call.input = InstanceClass(size) => call.records = <<TierEstimate(size)>>

====
